---- MODULE Spec2Model ----
(***************************************************************************)
(* moogration: the migration-application engine of src/moogration.go       *)
(* (lines 1-276, the current variant of the package).                      *)
(*                                                                         *)
(* The registry (registeredMigrations) is process memory, the ledger is    *)
(* the `migration` table.  One call of RunLatest or Rollback is a sequence *)
(* of steps, one per database statement, so that an abort (panic) in the   *)
(* middle of a call leaves exactly the statements already executed.        *)
(*                                                                         *)
(* Names are naturals (only their order and equality are used by the       *)
(* code), script texts are sequences over Alphabet.                        *)
(***************************************************************************)
EXTENDS Naturals, Integers, Sequences, FiniteSets, TLC

\* ---------------------------------------------------------------- bounds
MaxLen   == 1      \* longest script text
MaxReg   == 2      \* longest registry
MaxBatch == 2      \* forward runs start only while latestBatch < MaxBatch
MaxRoll  == 2      \* largest numBatches passed to Rollback

Names    == {1, 2}
Alphabet == {1}
Invokers == {1}

RECURSIVE SeqsUpTo(_)
SeqsUpTo(n) == IF n = 0 THEN {<<>>}
               ELSE LET S == SeqsUpTo(n - 1)
                    IN  S \cup {Append(s, c) : s \in {t \in S : Len(t) = n - 1}, c \in Alphabet}

Scripts == SeqsUpTo(MaxLen)

\* type Migration struct { Up, Down, Name string }
Migration == [Name : Names, Up : Scripts, Down : Scripts]

\* the definitions of the engine specification: one up text and two down
\* texts (the engine reads a script's text only through hash, compared
\* for equality)
FixedUp == CHOOSE s \in Scripts : Len(s) = MaxLen
EngineDown == {<<>>, FixedUp}
EngineMigration == [Name : Names, Up : {FixedUp}, Down : EngineDown]

\* ---------------------------------------------------------------- state
VARIABLES
    registeredMigrations,  \* var registeredMigrations []*Migration
    ledger,                \* rows of table `migration`, in id order
    inv                    \* per invoker: position and locals of its call

vars == <<registeredMigrations, ledger, inv>>

IdleCall == [pc |-> "idle", op |-> "none", down |-> FALSE, force |-> FALSE,
             currentBatch |-> 0, idx |-> 0, numBatches |-> 0, batches |-> <<>>,
             rows |-> <<>>, trace |-> <<>>, result |-> "none",
             \* history: the ledger at the start of the call, whether it
             \* directly follows a completed forward run without force
             \* (again; prev between calls), the highest batch number
             \* written by earlier calls
             ledger0 |-> <<>>, again |-> FALSE, prev |-> "none", assigned0 |-> 0]

\* ---------------------------------------------------------------- helpers
RECURSIVE md5Sum(_)
\* md5.Sum + hex.EncodeToString: a digest of the byte string, modelled as
\* collision-free on the bounded inputs (base-(|Alphabet|+1) numeral).
md5Sum(data) == IF data = <<>> THEN 0
                ELSE Head(data) + (Cardinality(Alphabet) + 1) * md5Sum(Tail(data))

\* the byte string that hash() digests: []byte(m.Up + m.Down)
hashInput(m) == m.Up \o m.Down

\* func (m Migration) hash() string
hash(m) == md5Sum(hashInput(m))

Range(s) == {s[k] : k \in 1..Len(s)}

RECURSIVE SelectRows(_, _)
\* SELECT ... FROM migration WHERE name = ?  (rows in id order)
SelectRows(L, n) == IF L = <<>> THEN <<>>
                    ELSE IF Head(L).name = n THEN <<Head(L)>> \o SelectRows(Tail(L), n)
                    ELSE SelectRows(Tail(L), n)

migrationStatus_absentApplied(m, L) ==
    LET found == SelectRows(L, m.Name)
    IN  [hasRun |-> TRUE, hasChanged |-> (found # <<>> /\ found[1].sql_hash # hash(m))]

\* func (m Migration) migrationStatus(db) (hasRun, hasChanged bool), on a
\* lookup that did not fail: QueryRow takes the first matching row.
migrationStatus(m, L) ==
    LET found == SelectRows(L, m.Name)
    IN  IF found = <<>> THEN [hasRun |-> FALSE, hasChanged |-> FALSE]
        ELSE [hasRun |-> TRUE, hasChanged |-> (found[1].sql_hash # hash(m))]

RECURSIVE DeleteRows(_, _)
\* DELETE FROM migration WHERE name = ?
DeleteRows(L, n) == IF L = <<>> THEN <<>>
                    ELSE IF Head(L).name = n THEN DeleteRows(Tail(L), n)
                    ELSE <<Head(L)>> \o DeleteRows(Tail(L), n)

setMigrationStatus_countedBatch(m, down, L, batch) ==
    IF down THEN DeleteRows(L, m.Name)
    ELSE Append(L, [name |-> m.Name, sql_hash |-> hash(m), batch |-> Len(L) + 1,
                    src |-> <<m.Up, m.Down>>])

setMigrationStatus_keepOnDown(m, down, L, batch) ==
    IF down THEN L
    ELSE Append(L, [name |-> m.Name, sql_hash |-> hash(m), batch |-> batch,
                    src |-> <<m.Up, m.Down>>])

\* func (m Migration) setMigrationStatus(down, db, batch), on statements
\* that did not fail.  src is not a column: it remembers the texts whose
\* hash the row stores.
setMigrationStatus(m, down, L, batch) ==
    IF down THEN DeleteRows(L, m.Name)
    ELSE Append(L, [name |-> m.Name, sql_hash |-> hash(m), batch |-> batch,
                    src |-> <<m.Up, m.Down>>])

MaxOf(S) == CHOOSE x \in S : \A y \in S : y <= x

BatchSet(L) == {L[k].batch : k \in 1..Len(L)}

latestBatch_count(L, qerr) == IF qerr THEN 0 ELSE Len(L)

\* func latestBatch(db) (int, error): SELECT MAX(batch).  On an empty table
\* MAX is NULL and Scan fails; that error, like any other Scan/query error
\* (qerr), is not sql.ErrNoRows and is turned into batch 0 with a nil error.
latestBatch(L, qerr) == IF qerr \/ L = <<>> THEN 0 ELSE MaxOf(BatchSet(L))

RECURSIVE SortDesc(_)
SortDesc(S) == IF S = {} THEN <<>> ELSE <<MaxOf(S)>> \o SortDesc(S \ {MaxOf(S)})

\* func allBatches(db) ([]int, error):
\* SELECT DISTINCT batch FROM migration ORDER BY batch DESC
allBatches(L) == SortDesc(BatchSet(L))

RECURSIVE SelectBatch(_, _)
\* SELECT name, sql_hash FROM migration WHERE batch = ?
SelectBatch(L, b) == IF L = <<>> THEN <<>>
                     ELSE IF Head(L).batch = b THEN <<Head(L)>> \o SelectBatch(Tail(L), b)
                     ELSE SelectBatch(Tail(L), b)

less_ascending(a, b, down) == a.Name < b.Name

\* the sort.Slice comparator of RunLatest
less(a, b, down) == IF down THEN a.Name > b.Name ELSE a.Name < b.Name

Perms(n) == {f \in [1..n -> 1..n] : \A a, b \in 1..n : f[a] = f[b] => a = b}

\* sort.Slice(registeredMigrations, less): some permutation in which no
\* element is `less` than an earlier one (sort.Slice is not stable, so the
\* order of equal names is not determined)
SortedRegistries(reg, down) ==
    {s \in {[k \in 1..Len(reg) |-> reg[f[k]]] : f \in Perms(Len(reg))} :
        \A a, b \in 1..Len(reg) : a < b => ~less(s[b], s[a], down)}

skips_never(st, down) == FALSE

skips_anyDirection(st, down) == st.hasRun

skips_unlessDrifted(st, down) == st.hasRun /\ ~st.hasChanged /\ ~down

\* RunLatest line 252: the only automatic skip
skips(st, down) == st.hasRun /\ ~down

warns_whateverForce(st, force) == st.hasChanged

\* RunLatest lines 256-262: the drift warning, not logged under force
warns(st, force) == st.hasChanged /\ ~force

panics_never(force) == FALSE

\* RunLatest lines 265-272: a failed script panics unless force
panics(force) == ~force

\* func (m Migration) run(down, db, logger): what db.Exec did with the
\* script of the definition at registry position k, ok or not
run(m, k, ok) == [ev |-> IF ok THEN "ran" ELSE "failed", name |-> m.Name, k |-> k]

\* ---------------------------------------------------------------- Init
Init == /\ registeredMigrations = <<>>
        /\ ledger = <<>>
        /\ inv = [p \in Invokers |-> IdleCall]

\* ---------------------------------------------------------------- registry
\* func Register(m ...*Migration), one definition per call
Register(m) ==
    /\ \A p \in DOMAIN inv : inv[p].pc = "idle"
    /\ Len(registeredMigrations) < MaxReg
    /\ registeredMigrations' = Append(registeredMigrations, m)
    /\ inv' = [p \in DOMAIN inv |-> [inv[p] EXCEPT !.prev = "none"]]
    /\ UNCHANGED ledger

\* the caller edits a registered definition through its pointer
\* (moogration_test.go:281)
Edit(k, up, dn) ==
    /\ \A p \in DOMAIN inv : inv[p].pc = "idle"
    /\ k \in 1..Len(registeredMigrations)
    /\ <<up, dn>> # <<registeredMigrations[k].Up, registeredMigrations[k].Down>>
    /\ registeredMigrations' = [registeredMigrations EXCEPT ![k].Up = up, ![k].Down = dn]
    /\ UNCHANGED <<ledger, inv>>

\* the process ends and a new one starts: the registry is process memory
\* (var registeredMigrations = []*Migration{}), the ledger is in the database
Restart ==
    /\ \A p \in DOMAIN inv : inv[p].pc = "idle"
    /\ registeredMigrations # <<>>
    /\ registeredMigrations' = <<>>
    /\ inv' = [p \in DOMAIN inv |-> [inv[p] EXCEPT !.prev = "none"]]
    /\ UNCHANGED ledger

\* ---------------------------------------------------------------- calls
\* the highest batch number written by the calls before c and by c itself
Assigned(c) == IF c.op = "RunLatest" /\ ~c.down /\ Len(ledger) > Len(c.ledger0)
                  /\ c.currentBatch > c.assigned0
               THEN c.currentBatch ELSE c.assigned0

\* the record of a new call of an invoker whose idle record is c0
NewCall(c0, op, down, force) ==
    [IdleCall EXCEPT !.op = op, !.down = down, !.force = force, !.ledger0 = ledger,
                     !.assigned0 = c0.assigned0,
                     !.again = (c0.prev = "forward" /\ op = "RunLatest" /\ ~down /\ ~force)]

Finish(p, c, res) == inv' = [inv EXCEPT ![p] = [c EXCEPT !.pc = "done", !.result = res]]

\* ---------------------------------------------------------------- RunLatest
\* next loop iteration of RunLatest, or the end of the loop
Advance(p, c, reg) ==
    IF c.idx < Len(reg)
    THEN inv' = [inv EXCEPT ![p] = [c EXCEPT !.pc = "status", !.idx = c.idx + 1]]
    ELSE Finish(p, c, "ok")

\* RunLatest lines 222-247: create the table, read the latest batch, sort
RunLatestStart(p, down, force, tableErr, qerr) ==
    /\ inv[p].pc = "idle"
    /\ down \/ latestBatch(ledger, FALSE) < MaxBatch
    /\ LET c == NewCall(inv[p], "RunLatest", down, force)
       IN  IF tableErr
           THEN /\ Finish(p, c, "panic")
                /\ UNCHANGED registeredMigrations
           ELSE /\ registeredMigrations' \in SortedRegistries(registeredMigrations, down)
                /\ Advance(p, [c EXCEPT !.currentBatch = latestBatch(ledger, qerr) + 1],
                           registeredMigrations)
    /\ UNCHANGED ledger

\* RunLatest lines 249-262: m.migrationStatus, the skip, the drift warning
RunLatestStatus(p, lookupErr) ==
    /\ inv[p].pc = "status"
    /\ LET c  == inv[p]
           m  == registeredMigrations[c.idx]
           st == migrationStatus(m, ledger)
       IN  IF lookupErr
           THEN Finish(p, [c EXCEPT !.trace = Append(@, [ev |-> "lookup failed",
                                                         name |-> m.Name, k |-> c.idx])],
                       "panic")
           ELSE IF skips(st, c.down) THEN Advance(p, c, registeredMigrations)
           ELSE inv' = [inv EXCEPT ![p] =
                          [c EXCEPT !.pc = "run",
                                    !.trace = IF warns(st, c.force)
                                              THEN Append(@, [ev |-> "warning", name |-> m.Name,
                                                              k |-> c.idx])
                                              ELSE @]]
    /\ UNCHANGED <<registeredMigrations, ledger>>

\* RunLatest lines 264-273: m.run; a failure panics unless force
RunLatestRun(p, ok) ==
    /\ inv[p].pc = "run"
    /\ LET c  == inv[p]
           m  == registeredMigrations[c.idx]
           t1 == Append(c.trace, run(m, c.idx, ok))
       IN  IF ok THEN inv' = [inv EXCEPT ![p] = [c EXCEPT !.pc = "set", !.trace = t1]]
           ELSE IF panics(c.force) THEN Finish(p, [c EXCEPT !.trace = t1], "panic")
           ELSE inv' = [inv EXCEPT ![p] =
                          [c EXCEPT !.pc = "set",
                                    !.trace = Append(t1, [ev |-> "error", name |-> m.Name,
                                                          k |-> c.idx])]]
    /\ UNCHANGED <<registeredMigrations, ledger>>

\* RunLatest line 274: m.setMigrationStatus(down, db, currentBatch)
RunLatestSet(p, stmtErr) ==
    /\ inv[p].pc = "set"
    /\ LET c == inv[p]
           m == registeredMigrations[c.idx]
       IN  IF stmtErr THEN /\ Finish(p, c, "panic")
                           /\ UNCHANGED ledger
           ELSE /\ ledger' = setMigrationStatus(m, c.down, ledger, c.currentBatch)
                /\ Advance(p, c, registeredMigrations)
    /\ UNCHANGED registeredMigrations

\* ---------------------------------------------------------------- Rollback
\* Rollback line 209: the loop bound
rollbackCount(numBatches) == numBatches - 1

\* Rollback lines 204-207: allBatches
RollbackStart(p, numBatches, force, qerr) ==
    /\ inv[p].pc = "idle"
    /\ LET c == [NewCall(inv[p], "Rollback", TRUE, force) EXCEPT !.numBatches = numBatches]
       IN  IF qerr THEN Finish(p, c, "error")
           ELSE inv' = [inv EXCEPT ![p] = [c EXCEPT !.pc = "batch",
                                                    !.batches = allBatches(ledger)]]
    /\ UNCHANGED <<registeredMigrations, ledger>>

\* Rollback lines 209-211 and rollbackOneBatch lines 171-175: the loop
\* test, batches[i] (idx is i, counted from 0) and the query of the batch
RollbackBatch(p, qerr) ==
    /\ inv[p].pc = "batch"
    /\ LET c == inv[p]
       IN  IF ~(c.idx < rollbackCount(c.numBatches)) THEN Finish(p, c, "ok")
           ELSE IF c.idx >= Len(c.batches) THEN Finish(p, c, "panic")
           ELSE IF qerr THEN Finish(p, c, "error")
           ELSE inv' = [inv EXCEPT ![p] =
                          [c EXCEPT !.pc = "row",
                                    !.rows = SelectBatch(ledger, c.batches[c.idx + 1])]]
    /\ UNCHANGED <<registeredMigrations, ledger>>

verified_always(m, row, force) == TRUE

\* rollbackOneBatch line 188: the hash check, bypassed by force
verified(m, row, force) == force \/ hash(m) = row.sql_hash

rollbackRecord_deleteMatched(L, row) ==
    IF \E k \in 1..Len(registeredMigrations) : registeredMigrations[k].Name = row.name
    THEN DeleteRows(L, row.name) ELSE L

\* rollbackOneBatch lines 185-196: what the registry loop for one row does
\* to the ledger: no statement follows the down script
rollbackRecord(L, row) == L

RECURSIVE rollbackRow(_, _, _, _, _)
\* rollbackOneBatch lines 185-196: the registry loop for one row, from
\* registry position k on; outs[k] is the outcome of the k-th down script
\* (its error is dropped, line 190)
rollbackRow(k, row, force, outs, trace) ==
    IF k > Len(registeredMigrations) THEN [trace |-> trace, panic |-> FALSE]
    ELSE LET m == registeredMigrations[k]
         IN  IF m.Name # row.name THEN rollbackRow(k + 1, row, force, outs, trace)
             ELSE IF verified(m, row, force)
             THEN rollbackRow(k + 1, row, force, outs, Append(trace, run(m, k, outs[k])))
             ELSE [trace |-> trace, panic |-> TRUE]

\* rollbackOneBatch lines 178-199: one rows.Next() iteration, or the
\* return to Rollback's loop when the rows are exhausted.  outs is TRUE
\* wherever no script runs.
RollbackRow(p, outs) ==
    /\ inv[p].pc = "row"
    /\ LET c == inv[p]
       IN  IF c.rows = <<>>
           THEN /\ \A k \in DOMAIN outs : outs[k]
                /\ inv' = [inv EXCEPT ![p] = [c EXCEPT !.pc = "batch", !.idx = c.idx + 1]]
                /\ UNCHANGED ledger
           ELSE LET r == rollbackRow(1, Head(c.rows), c.force, outs, c.trace)
                IN  /\ \A k \in DOMAIN outs :
                          registeredMigrations[k].Name # Head(c.rows).name => outs[k]
                    /\ IF r.panic
                       THEN /\ Finish(p, [c EXCEPT !.trace = r.trace], "panic")
                            /\ UNCHANGED ledger
                       ELSE /\ inv' = [inv EXCEPT ![p] = [c EXCEPT !.rows = Tail(c.rows),
                                                                     !.trace = r.trace]]
                            /\ ledger' = rollbackRecord(ledger, Head(c.rows))
    /\ UNCHANGED registeredMigrations

\* the call returns to its caller (or the panic unwinds)
Return(p) ==
    /\ inv[p].pc = "done"
    /\ inv' = [inv EXCEPT ![p] =
                 [IdleCall EXCEPT !.assigned0 = Assigned(inv[p]),
                                  !.prev = IF inv[p].op = "RunLatest" /\ ~inv[p].down
                                              /\ ~inv[p].force /\ inv[p].result = "ok"
                                           THEN "forward" ELSE "none"]]
    /\ UNCHANGED <<registeredMigrations, ledger>>

Calls ==
    \/ \E down \in BOOLEAN, force \in BOOLEAN, tableErr \in BOOLEAN, qerr \in BOOLEAN :
          RunLatestStart(1, down, force, tableErr, qerr)
    \/ \E lookupErr \in BOOLEAN : RunLatestStatus(1, lookupErr)
    \/ \E ok \in BOOLEAN : RunLatestRun(1, ok)
    \/ \E stmtErr \in BOOLEAN : RunLatestSet(1, stmtErr)
    \/ \E n \in 0..MaxRoll, force \in BOOLEAN, qerr \in BOOLEAN : RollbackStart(1, n, force, qerr)
    \/ \E qerr \in BOOLEAN : RollbackBatch(1, qerr)
    \/ \E outs \in [1..Len(registeredMigrations) -> BOOLEAN] : RollbackRow(1, outs)
    \/ Return(1)

\* the engine: definitions differ in name and down text
Next ==
    \/ \E m \in EngineMigration : Register(m)
    \/ \E k \in 1..MaxReg, dn \in EngineDown : Edit(k, FixedUp, dn)
    \/ Restart
    \/ Calls

Spec == Init /\ [][Next]_vars

\* RunLatest without force over every definition, up and down texts both
\* varying, on a database whose ledger statements do not fail
NextContent ==
    \/ \E m \in Migration : Register(m)
    \/ \E k \in 1..MaxReg, up \in Scripts, dn \in Scripts : Edit(k, up, dn)
    \/ \E down \in BOOLEAN : RunLatestStart(1, down, FALSE, FALSE, FALSE)
    \/ RunLatestStatus(1, FALSE)
    \/ \E ok \in BOOLEAN : RunLatestRun(1, ok)
    \/ RunLatestSet(1, FALSE)
    \/ Return(1)

SpecContent == Init /\ [][NextContent]_vars

\* two processes that have registered the same definitions, under distinct
\* names, call RunLatest forward on one database without coordination; no
\* statement fails.  The registry stands for the equal registries of both.
Processes == {1, 2}

InitConcurrent == /\ registeredMigrations = <<>>
                  /\ ledger = <<>>
                  /\ inv = [p \in Processes |-> IdleCall]

NextConcurrent ==
    \/ \E m \in EngineMigration :
          /\ \A k \in 1..Len(registeredMigrations) : registeredMigrations[k].Name # m.Name
          /\ Register(m)
    \/ \E p \in Processes :
          \/ RunLatestStart(p, FALSE, FALSE, FALSE, FALSE)
          \/ RunLatestStatus(p, FALSE)
          \/ \E ok \in BOOLEAN : RunLatestRun(p, ok)
          \/ RunLatestSet(p, FALSE)
          \/ Return(p)

SpecConcurrent == InitConcurrent /\ [][NextConcurrent]_vars

\* ================================================================ claims
Last(s) == s[Len(s)]

Forward(c) == c.op = "RunLatest" /\ ~c.down

\* the latest-batch query of a run failed on a non-empty ledger, so that the
\* run took 0 for the latest batch
ReadLost(c) == c.currentBatch # latestBatch(c.ledger0, FALSE) + 1
Inserted(c) == Len(ledger) > Len(c.ledger0)
Scripted(c) == {j \in 1..Len(c.trace) : c.trace[j].ev \in {"ran", "failed"}}

\* the scripts of name n that succeeded in call c
Succeeded(c, n) == {j \in 1..Len(c.trace) : c.trace[j].ev = "ran" /\ c.trace[j].name = n}

\* C1: a call that completes normally keeps "a ledger record for a name
\* exists iff that migration's up script has succeeded and its down script
\* has not succeeded since": a name has a record after the call iff the
\* call's successful scripts for it were up scripts or, when the call ran
\* no script of it successfully, iff it had a record before.  (All scripts
\* of one call have one direction.)
C1_LedgerMatchesSchema ==
    \A p \in Invokers :
        (inv[p].pc = "done" /\ inv[p].result = "ok") =>
            \A n \in Names :
                (SelectRows(ledger, n) # <<>>) <=>
                    (IF Succeeded(inv[p], n) # {} THEN ~inv[p].down
                     ELSE SelectRows(inv[p].ledger0, n) # <<>>)

\* the n most recently created batches of a ledger
Newest(L, n) == {allBatches(L)[j] : j \in {i \in 1..Len(allBatches(L)) : i <= n}}

\* C2: a Rollback(N) that returns success has removed exactly the records
\* of the N most recent batches and left every older record in place, so
\* latestBatch is the highest remaining batch number.
C2_RollbackRemovesNewest ==
    \A p \in Invokers :
        (inv[p].pc = "done" /\ inv[p].op = "Rollback" /\ inv[p].result = "ok")
            => /\ \A k \in 1..Len(ledger) :
                    ledger[k].batch \notin Newest(inv[p].ledger0, inv[p].numBatches)
               /\ \A k \in 1..Len(inv[p].ledger0) :
                    inv[p].ledger0[k].batch \notin Newest(inv[p].ledger0, inv[p].numBatches)
                        => inv[p].ledger0[k] \in Range(ledger)
               /\ latestBatch(ledger, FALSE) =
                    latestBatch(SelectSeq(inv[p].ledger0,
                                   LAMBDA r : r.batch \notin Newest(inv[p].ledger0,
                                                                    inv[p].numBatches)), FALSE)

Executed(c, k) == \E j \in 1..Len(c.trace) : c.trace[j].ev = "ran" /\ c.trace[j].k = k

ForwardDone(c) == c.pc = "done" /\ Forward(c) /\ ~c.force /\ c.result = "ok"

DistinctNames ==
    \A j, k \in 1..Len(registeredMigrations) :
        registeredMigrations[j].Name = registeredMigrations[k].Name => j = k

\* C3 as claimed: after a forward RunLatest with force=false that completes
\* without failure (over definitions with distinct names), every registered
\* definition has status (true, false) and its record stores the
\* definition's hash.
C3_AllAppliedUndrifted ==
    \A p \in Invokers : (ForwardDone(inv[p]) /\ DistinctNames) =>
        \A k \in 1..Len(registeredMigrations) :
            LET m == registeredMigrations[k]
            IN  /\ migrationStatus(m, ledger) = [hasRun |-> TRUE, hasChanged |-> FALSE]
                /\ SelectRows(ledger, m.Name)[1].sql_hash = hash(m)

\* C3 as amended: after such a run every registered definition has
\* hasRun=true; every definition whose up script the run executed has
\* hasDrifted=false and its record stores the definition's hash; a
\* definition whose name already had a record is skipped and keeps the
\* status it had, drifted or not.
C3_ExecutedUndrifted ==
    \A p \in Invokers : ForwardDone(inv[p]) =>
        \A k \in 1..Len(registeredMigrations) :
            LET m == registeredMigrations[k]
            IN  /\ migrationStatus(m, ledger).hasRun
                /\ Executed(inv[p], k) =>
                      /\ ~migrationStatus(m, ledger).hasChanged
                      /\ SelectRows(ledger, m.Name)[1].sql_hash = hash(m)
                /\ SelectRows(inv[p].ledger0, m.Name) # <<>> =>
                      /\ ~Executed(inv[p], k)
                      /\ migrationStatus(m, ledger) = migrationStatus(m, inv[p].ledger0)

\* C3 witness: such a run has executed one definition and skipped a drifted one
C3_Witness ==
    \E p \in Invokers : /\ ForwardDone(inv[p]) /\ DistinctNames
                        /\ \E k \in 1..Len(registeredMigrations) : Executed(inv[p], k)
                        /\ \E k \in 1..Len(registeredMigrations) :
                              migrationStatus(registeredMigrations[k], ledger).hasChanged

\* C4: a forward RunLatest with force=false that directly follows a completed
\* one (no registration in between) executes no script and leaves the
\* ledger, hence latestBatch, as the first run left them.
C4_SecondRunIdempotent ==
    \A p \in Invokers : inv[p].again =>
        /\ Scripted(inv[p]) = {}
        /\ ledger = inv[p].ledger0
        /\ latestBatch(ledger, FALSE) = latestBatch(inv[p].ledger0, FALSE)
        /\ inv[p].pc = "done" => inv[p].result \in {"ok", "panic"}

\* C4 witness: the second run has completed over a registry one of whose
\* definitions was edited after it was applied
C4_Witness ==
    \E p \in Invokers : /\ inv[p].again /\ inv[p].pc = "done" /\ inv[p].result = "ok"
                        /\ \E k \in 1..Len(registeredMigrations) :
                              migrationStatus(registeredMigrations[k], ledger).hasChanged

\* C5 as claimed: every completed forward RunLatest over a non-empty
\* registry raises latestBatch by exactly 1, also one that skips every
\* definition.
C5_EveryRunIncrements ==
    \A p \in Invokers :
        (inv[p].pc = "done" /\ Forward(inv[p]) /\ inv[p].result = "ok"
            /\ registeredMigrations # <<>> /\ ~ReadLost(inv[p]))
            => latestBatch(ledger, FALSE) = latestBatch(inv[p].ledger0, FALSE) + 1

\* C5 as amended: latestBatch is 0 on an empty ledger; a forward run that
\* inserts no record (every definition skipped) leaves it unchanged; one
\* that inserts records raises it by exactly 1, however many it inserts,
\* when its latest-batch query succeeded, and leaves it at the larger of
\* its old value and 1 when that query failed.
C5_InsertingRunIncrements ==
    /\ ledger = <<>> => latestBatch(ledger, FALSE) = 0
    /\ \A p \in Invokers :
        (inv[p].pc = "done" /\ Forward(inv[p])) =>
            LET before == latestBatch(inv[p].ledger0, FALSE)
                after  == latestBatch(ledger, FALSE)
            IN  /\ ~Inserted(inv[p]) => after = before
                /\ (Inserted(inv[p]) /\ ~ReadLost(inv[p])) => after = before + 1
                /\ (Inserted(inv[p]) /\ ReadLost(inv[p])) =>
                      after = (IF before > 1 THEN before ELSE 1)

\* C5 witness: a completed forward run over a non-empty registry has
\* skipped every definition and left latestBatch where it was
C5_Witness ==
    \E p \in Invokers : /\ inv[p].pc = "done" /\ Forward(inv[p]) /\ inv[p].result = "ok"
                        /\ registeredMigrations # <<>>
                        /\ ~Inserted(inv[p])
                        /\ latestBatch(ledger, FALSE) >= 1

\* C6 as claimed: a forward run (whose latest-batch query succeeded) never
\* writes a batch number that an earlier forward run wrote: the numbers
\* written by successive forward runs strictly increase.
C6_NeverReused ==
    \A p \in Invokers :
        (Forward(inv[p]) /\ Inserted(inv[p]) /\ ~ReadLost(inv[p]))
            => inv[p].currentBatch > inv[p].assigned0

\* C6 as amended: a forward run writes one batch number, the latest batch
\* it read plus 1; when its query succeeded that number is greater than
\* every batch number in the ledger at the start of the run.  Numbers of
\* deleted batches are not remembered and are written again.
C6_AboveLedger ==
    \A p \in Invokers :
        (Forward(inv[p]) /\ inv[p].currentBatch > 0) =>
            /\ inv[p].currentBatch \in {1, latestBatch(inv[p].ledger0, FALSE) + 1}
            /\ ~ReadLost(inv[p]) =>
                  \A k \in 1..Len(inv[p].ledger0) :
                      inv[p].ledger0[k].batch < inv[p].currentBatch
            /\ \A k \in 1..Len(ledger) :
                  k > Len(inv[p].ledger0) => ledger[k].batch = inv[p].currentBatch

\* C6 witness: a forward run writes a number that was written before
C6_Witness ==
    \E p \in Invokers : /\ Forward(inv[p]) /\ Inserted(inv[p]) /\ ~ReadLost(inv[p])
                        /\ inv[p].currentBatch <= inv[p].assigned0

\* C7: when a script has failed in a RunLatest with force=true, the error
\* is logged and the step that follows does not touch the ledger for that
\* migration; the run goes on to the next definition.
C7_FailedScriptUnrecorded ==
    [][\A p \in Invokers :
          (inv[p].op = "RunLatest" /\ inv[p].force /\ inv[p].pc = "set"
              /\ Last(inv[p].trace).ev = "error" /\ inv'[p] # inv[p])
          => /\ ledger' = ledger
             /\ inv'[p].pc \in {"status", "done"}]_vars

RECURSIVE Replay(_, _, _)
\* the ledger statements of the scripts that succeeded, in order
Replay(c, j, L) ==
    IF j > Len(c.trace) THEN L
    ELSE IF c.trace[j].ev = "ran"
         THEN Replay(c, j + 1, setMigrationStatus(registeredMigrations[c.trace[j].k],
                                                  c.down, L, c.currentBatch))
         ELSE Replay(c, j + 1, L)

\* C8: once a script has failed in a RunLatest with force=false the run
\* is over (panic): the failure is the last script the run executed, the
\* loop has not moved past the failing definition, and the ledger holds
\* exactly the changes of the migrations that succeeded before it.
C8_AbortOnFailure ==
    \A p \in Invokers :
        (inv[p].op = "RunLatest" /\ ~inv[p].force
            /\ \E j \in 1..Len(inv[p].trace) : inv[p].trace[j].ev = "failed")
        => /\ inv[p].pc = "done" /\ inv[p].result = "panic"
           /\ Last(inv[p].trace).ev = "failed"
           /\ Last(inv[p].trace).k = inv[p].idx
           /\ \A j \in 1..(Len(inv[p].trace) - 1) : inv[p].trace[j].ev # "failed"
           /\ ledger = Replay(inv[p], 1, inv[p].ledger0)

\* C8 witness: the first of two definitions failed and the second was
\* never reached
C8_Witness ==
    \E p \in Invokers : /\ inv[p].op = "RunLatest" /\ ~inv[p].force
                        /\ inv[p].pc = "done" /\ inv[p].result = "panic"
                        /\ inv[p].trace # <<>> /\ Last(inv[p].trace).ev = "failed"
                        /\ inv[p].idx < Len(registeredMigrations)

\* C9: for a definition whose name has a ledger record (names being
\* distinct, so that the record is this definition's), migrationStatus
\* reports hasRun=true, and hasDrifted=true exactly when the definition's
\* (up, down) texts differ from the texts recorded at application.
C9_DriftIffEdited ==
    \A k \in 1..Len(registeredMigrations) :
        LET m  == registeredMigrations[k]
            rs == SelectRows(ledger, m.Name)
        IN  (rs # <<>> /\ DistinctNames) =>
              /\ migrationStatus(m, ledger).hasRun
              /\ migrationStatus(m, ledger).hasChanged <=> (<<m.Up, m.Down>> # rs[1].src)

\* C10: two registered definitions whose (up, down) pairs differ give
\* hash() different byte strings to digest.
C10_FramingUnambiguous ==
    \A j, k \in 1..Len(registeredMigrations) :
        LET a == registeredMigrations[j]
            b == registeredMigrations[k]
        IN  <<a.Up, a.Down>> # <<b.Up, b.Down>> => hashInput(a) # hashInput(b)

\* the status lookup of the step just taken failed (an error other than
\* sql.ErrNoRows)
LookupFailed(c) == c.trace # <<>> /\ Last(c.trace).ev = "lookup failed"

\* C11: migrationStatus of a definition whose name has no ledger record is
\* (hasRun=false, hasDrifted=false), and the absence is not an error: unless
\* the lookup itself failed, the status step of RunLatest on such a
\* definition neither aborts nor skips nor warns, it goes on to the script.
C11_AbsentIsUnapplied ==
    [][/\ \A m \in Migration :
            SelectRows(ledger, m.Name) = <<>> =>
                migrationStatus(m, ledger) = [hasRun |-> FALSE, hasChanged |-> FALSE]
       /\ \A p \in Invokers :
            (/\ inv[p].pc = "status" /\ inv'[p] # inv[p]
             /\ SelectRows(ledger, registeredMigrations[inv[p].idx].Name) = <<>>
             /\ ~LookupFailed(inv'[p]))
            => /\ inv'[p].pc = "run"
               /\ inv'[p].result = "none"
               /\ inv'[p].trace = inv[p].trace]_vars

\* C11 witness: a forward run is about to execute the script of a
\* definition that has no ledger record
C11_Witness ==
    \E p \in Invokers :
        /\ Forward(inv[p]) /\ inv[p].pc = "run"
        /\ SelectRows(ledger, registeredMigrations[inv[p].idx].Name) = <<>>
        /\ ledger # <<>>

Reverse(c) == c.op = "RunLatest" /\ c.down

RegisteredNames == {registeredMigrations[k].Name : k \in 1..Len(registeredMigrations)}

\* C12: in a reverse RunLatest every definition the loop has passed has
\* status (false, false), its record deleted, whatever its status was
\* (applied and not drifted included); when the run has completed and every
\* record of the ledger it started on belonged to a registered definition,
\* the ledger is empty and latestBatch is 0.
C12_ReverseUnapplies ==
    \A p \in Invokers : Reverse(inv[p]) =>
        /\ \A k \in 1..Len(registeredMigrations) :
              (k < inv[p].idx \/ (inv[p].pc = "done" /\ inv[p].result = "ok")) =>
                  /\ SelectRows(ledger, registeredMigrations[k].Name) = <<>>
                  /\ migrationStatus(registeredMigrations[k], ledger)
                        = [hasRun |-> FALSE, hasChanged |-> FALSE]
        /\ (/\ inv[p].pc = "done" /\ inv[p].result = "ok"
            /\ \A j \in 1..Len(inv[p].ledger0) : inv[p].ledger0[j].name \in RegisteredNames)
           => ledger = <<>> /\ latestBatch(ledger, FALSE) = 0

\* C12 witness: a completed reverse run started on a ledger that recorded
\* two definitions as applied and not drifted, and left it empty
C12_Witness ==
    \E p \in Invokers :
        /\ Reverse(inv[p]) /\ inv[p].pc = "done" /\ inv[p].result = "ok"
        /\ Len(inv[p].ledger0) = 2 /\ ledger = <<>>
        /\ \A k \in 1..Len(registeredMigrations) :
              migrationStatus(registeredMigrations[k], inv[p].ledger0)
                  = [hasRun |-> TRUE, hasChanged |-> FALSE]

\* the scripts of call c ran in strictly ascending (descending) name order
StrictlyOrdered(c) ==
    \A i, j \in Scripted(c) :
        i < j => IF c.down THEN c.trace[i].name > c.trace[j].name
                 ELSE c.trace[i].name < c.trace[j].name

\* C13: within one RunLatest the scripts execute in name order, whatever
\* the registration order and the ledger: strictly ascending in a forward
\* run, strictly descending in a reverse run over definitions with distinct
\* names (names are the definitions' identity); definitions registered
\* under one name run next to each other in a reverse run.
C13_NameOrder ==
    \A p \in Invokers : inv[p].op = "RunLatest" =>
        /\ (~inv[p].down \/ DistinctNames) => StrictlyOrdered(inv[p])
        /\ \A i, j \in Scripted(inv[p]) :
              (i < j /\ inv[p].down) => inv[p].trace[i].name >= inv[p].trace[j].name

\* C13 witness: a reverse run has executed the scripts of two definitions,
\* the higher name first
C13_Witness ==
    \E p \in Invokers :
        /\ Reverse(inv[p]) /\ DistinctNames
        /\ \E i, j \in Scripted(inv[p]) :
              i < j /\ inv[p].trace[i].name > inv[p].trace[j].name

\* C14: in a forward RunLatest (over definitions with distinct names) the
\* status step on a definition that has a ledger record skips it when force is false and goes on to run its
\* script when force is true (unless the lookup itself failed).
C14_ForceRunsAgain ==
    [][\A p \in Invokers :
          (/\ Forward(inv[p]) /\ inv[p].pc = "status" /\ inv'[p] # inv[p]
           /\ SelectRows(ledger, registeredMigrations[inv[p].idx].Name) # <<>>
           /\ ~LookupFailed(inv'[p]) /\ DistinctNames)
          => IF inv[p].force THEN inv'[p].pc = "run"
             ELSE inv'[p].pc \in {"status", "done"} /\ inv'[p].trace = inv[p].trace]_vars

\* the registry positions whose definition has the name of a ledger row,
\* and those among them whose current hash differs from the stored one
Matching(row) == {k \in 1..Len(registeredMigrations) : registeredMigrations[k].Name = row.name}
Drifted(row) == {k \in Matching(row) : hash(registeredMigrations[k]) # row.sql_hash}

\* the registry positions whose script the step just taken executed
NewlyRun(p) == {inv'[p].trace[j].k : j \in (Len(inv[p].trace) + 1)..Len(inv'[p].trace)}

\* C15: when Rollback with force=false comes to a ledger record whose
\* stored hash differs from the hash of a registered definition of that
\* name, the rollback aborts: the call ends without success, the down
\* script of that definition is not executed, the ledger keeps the record,
\* and the record remains the first one not processed.  With force=true
\* the step does not abort and executes the down script of every
\* definition of that name.
C15_DriftAbortsRollback ==
    [][\A p \in Invokers :
          (inv[p].op = "Rollback" /\ inv[p].pc = "row" /\ inv[p].rows # <<>>
              /\ inv'[p] # inv[p])
          => LET row == Head(inv[p].rows)
             IN  /\ (~inv[p].force /\ Drifted(row) # {}) =>
                       /\ inv'[p].pc = "done" /\ inv'[p].result = "panic"
                       /\ \A k \in NewlyRun(p), d \in Drifted(row) : k < d
                       /\ ledger' = ledger
                       /\ inv'[p].rows = inv[p].rows /\ inv'[p].idx = inv[p].idx
                 /\ inv[p].force =>
                       /\ inv'[p].pc = "row" /\ inv'[p].result = "none"
                       /\ NewlyRun(p) = Matching(row)]_vars

\* C15 witness: a Rollback with force=false has been aborted at a drifted
\* record
C15_Witness ==
    \E p \in Invokers :
        /\ inv[p].op = "Rollback" /\ ~inv[p].force
        /\ inv[p].pc = "done" /\ inv[p].result = "panic"
        /\ inv[p].rows # <<>> /\ Drifted(Head(inv[p].rows)) # {}
        /\ Head(inv[p].rows) \in Range(ledger)

\* the ledger records of the batches a Rollback call has gone through
\* (idx counts the batches done; the call does not change the ledger)
Processed(c) == {r \in Range(c.ledger0) :
                    \E i \in 1..Len(c.batches) : i <= c.idx /\ r.batch = c.batches[i]}

\* C16: a Rollback that returns success has met no ledger record, in the
\* batches it went through, whose name has no registered definition.
C16_UnregisteredIsFatal ==
    \A p \in Invokers :
        (inv[p].op = "Rollback" /\ inv[p].pc = "done" /\ inv[p].result = "ok")
            => \A r \in Processed(inv[p]) : r.name \in RegisteredNames

\* C17: a ledger access that fails for another reason than "no matching
\* row" ends the operation at once, whatever force is: a run whose status
\* lookup failed is over, and a forward run whose latest-batch query failed
\* is over too, it does not go on with a batch number computed from 0.
C17_LedgerFailureAborts ==
    \A p \in Invokers :
        /\ LookupFailed(inv[p]) => inv[p].pc = "done" /\ inv[p].result # "ok"
        /\ (Forward(inv[p]) /\ inv[p].currentBatch > 0 /\ ReadLost(inv[p]))
              => inv[p].pc = "done" /\ inv[p].result # "ok"

\* C18: no call of RunLatest or Rollback ends in a panic: every fatal
\* condition is an error outcome handed to the caller.
C18_NoPanic ==
    \A p \in Invokers : inv[p].result # "panic"

\* C19: when a Rollback step has taken a ledger record through
\* verification and the down script it executed for the record has
\* succeeded, the ledger holds no record of that name any more, so that
\* migrationStatus reports hasRun=false for the definition.
C19_RollbackDeletesRecord ==
    [][\A p \in Invokers :
          (/\ inv[p].op = "Rollback" /\ inv[p].pc = "row" /\ inv[p].rows # <<>>
           /\ inv'[p].pc = "row"
           /\ \E j \in (Len(inv[p].trace) + 1)..Len(inv'[p].trace) :
                 inv'[p].trace[j].ev = "ran")
          => /\ SelectRows(ledger', Head(inv[p].rows).name) = <<>>
             /\ \A k \in Matching(Head(inv[p].rows)) :
                   ~migrationStatus(registeredMigrations[k], ledger').hasRun]_vars

\* call c has executed the script of the definition at registry position k
Attempted(c, k) == \E j \in Scripted(c) : c.trace[j].k = k

Warned(p) == /\ Len(inv'[p].trace) = Len(inv[p].trace) + 1
             /\ Last(inv'[p].trace).ev = "warning"

\* a status step of RunLatest by p that neither failed its lookup nor
\* skipped the definition
StatusPassed(p) ==
    /\ inv[p].op = "RunLatest" /\ inv[p].pc = "status" /\ inv'[p] # inv[p]
    /\ ~LookupFailed(inv'[p])
    /\ ~skips(migrationStatus(registeredMigrations[inv[p].idx], ledger), inv[p].down)

\* C21 as claimed: a definition that is not skipped goes on to its script
\* whether drifted or not (drift never aborts the run), and when it is
\* drifted a warning is logged, whatever force is.
C21_DriftAlwaysWarns ==
    [][\A p \in Invokers : StatusPassed(p) =>
          /\ inv'[p].pc = "run" /\ inv'[p].result = "none"
          /\ migrationStatus(registeredMigrations[inv[p].idx], ledger).hasChanged
                => Warned(p)]_vars

\* C21 as amended: a definition that is not skipped goes on to its script
\* whether drifted or not; the warning is logged exactly when it is
\* drifted and force is false, and nothing else is logged by the step.
C21_DriftWarnsUnlessForce ==
    [][\A p \in Invokers : StatusPassed(p) =>
          /\ inv'[p].pc = "run" /\ inv'[p].result = "none"
          /\ Warned(p) <=>
                (/\ migrationStatus(registeredMigrations[inv[p].idx], ledger).hasChanged
                 /\ ~inv[p].force)
          /\ ~Warned(p) => inv'[p].trace = inv[p].trace]_vars

\* C21 witness: a run with force=true is about to execute the script of a
\* drifted definition and has logged no warning
C21_Witness ==
    \E p \in Invokers :
        /\ inv[p].op = "RunLatest" /\ inv[p].force /\ inv[p].pc = "run"
        /\ migrationStatus(registeredMigrations[inv[p].idx], ledger).hasChanged
        /\ \A j \in 1..Len(inv[p].trace) : inv[p].trace[j].ev # "warning"

\* the records of the ledger that were not in it when call c started
InsertedRows(c) == {k \in 1..Len(ledger) : k > Len(c.ledger0)}

\* C22: every record a forward RunLatest inserts carries the run's batch
\* number, which is the latest batch the run read at its start (the
\* ledger's maximum, or 0 when the ledger was empty or the query failed)
\* plus 1, and stores the hash the definition has at insertion: the insert
\* step appends exactly (name, hash, batch).  A reverse RunLatest inserts no
\* record.
C22_OneBatchPerRun ==
    [][\A p \in Invokers : inv[p].op = "RunLatest" =>
          /\ Forward(inv[p]) /\ inv[p].currentBatch > 0 =>
                /\ inv[p].currentBatch \in {0 + 1, latestBatch(inv[p].ledger0, FALSE) + 1}
                /\ \A k \in InsertedRows(inv[p]) : ledger[k].batch = inv[p].currentBatch
          /\ (Forward(inv[p]) /\ inv[p].pc = "set" /\ ledger' # ledger) =>
                LET m == registeredMigrations[inv[p].idx]
                IN  /\ Len(ledger') = Len(ledger) + 1
                    /\ SubSeq(ledger', 1, Len(ledger)) = ledger
                    /\ Last(ledger').name = m.Name
                    /\ Last(ledger').sql_hash = hash(m)
                    /\ Last(ledger').batch = inv[p].currentBatch
          /\ Reverse(inv[p]) =>
                /\ Len(ledger') <= Len(ledger)
                /\ Range(ledger) \subseteq Range(inv[p].ledger0)]_vars

\* C22 witness: a completed forward run has inserted two records
C22_Witness ==
    \E p \in Invokers :
        /\ Forward(inv[p]) /\ inv[p].pc = "done" /\ inv[p].result = "ok"
        /\ Cardinality(InsertedRows(inv[p])) = 2

Settled(c) == [c EXCEPT !.trace = SelectSeq(@, LAMBDA e : ~(c.pc = "set" /\ e.k = c.idx))]
Alone(c) == ledger = Replay(Settled(c), 1, c.ledger0)

\* C24: an insert of a forward RunLatest that finds the ledger as the run
\* itself has made it (no other invocation wrote during the run, as with
\* a single invoker at a time) never adds a second record for a name and
\* never uses a batch number that a record of an earlier run carries; two
\* records for one name, two executions of one up script and a batch
\* number shared by two runs arise only from interleaved invocations.
C24_RaceNeedsInterleaving ==
    [][\A p \in DOMAIN inv :
          (Forward(inv[p]) /\ inv[p].pc = "set" /\ ledger' # ledger /\ Alone(inv[p]))
          => /\ SelectRows(ledger, registeredMigrations[inv[p].idx].Name) = <<>>
             /\ \A k \in 1..Len(inv[p].ledger0) :
                   inv[p].ledger0[k].batch # inv[p].currentBatch]_vars

\* C24 witness: two interleaved forward runs have read the same latest
\* batch, each has run the up script of the same definition, and the
\* ledger holds two records of that name in one batch
C24_Witness ==
    \E p, q \in DOMAIN inv :
        /\ p # q /\ Forward(inv[p]) /\ Forward(inv[q])
        /\ inv[p].currentBatch = inv[q].currentBatch
        /\ inv[p].ledger0 = inv[q].ledger0
        /\ \E n \in Names :
              /\ Succeeded(inv[p], n) # {} /\ Succeeded(inv[q], n) # {}
              /\ Len(SelectRows(ledger, n)) = 2
              /\ SelectRows(ledger, n)[1].batch = SelectRows(ledger, n)[2].batch

\* C25: with a single invoker the ledger never holds two records of one
\* name, whatever was registered (one name several times included) and
\* whatever force is: the insert step of a forward run adds a record for
\* a name only when the ledger holds none.
C25_OneRecordPerName ==
    [][/\ \A n \in Names : Len(SelectRows(ledger, n)) <= 1
       /\ \A p \in Invokers :
            (Forward(inv[p]) /\ inv[p].pc = "set" /\ ledger' # ledger)
                => SelectRows(ledger, registeredMigrations[inv[p].idx].Name) = <<>>]_vars

\* C25 witness: a completed forward run with force=true over two
\* definitions of one name has left one record of that name
C25_Witness ==
    \E p \in Invokers :
        /\ Forward(inv[p]) /\ inv[p].force /\ inv[p].pc = "done" /\ inv[p].result = "ok"
        /\ Len(registeredMigrations) = 2
        /\ registeredMigrations[1].Name = registeredMigrations[2].Name
        /\ Len(SelectRows(ledger, registeredMigrations[1].Name)) = 1
        /\ Inserted(inv[p])

\* C26: Rollback never reads batches[i] beyond the list allBatches
\* returned: a Rollback that asks for more batches than the ledger holds
\* ends with success or an error, not with an index out of range.
C26_RollbackInRange ==
    \A p \in Invokers :
        (inv[p].op = "Rollback" /\ inv[p].pc = "done" /\ inv[p].result = "panic")
            => inv[p].idx < Len(inv[p].batches)
====
